---- MODULE Spec2Model ----
(***************************************************************************)
(* Flashcard backend: the request handlers of app/main.py and              *)
(* app/routers/users.py over the relational store declared in              *)
(* app/models.py.                                                          *)
(*                                                                         *)
(* The store (three tables) outlives the process: main.py:39 creates the   *)
(* tables only when they are missing, so the program starts on any         *)
(* content that satisfies the declared constraints (Init).  The cards of   *)
(* the store are those it starts with: create_card of main.py leaves the   *)
(* NOT NULL column cards.user_id unset and so never inserts one.           *)
(*                                                                         *)
(* The database engine is configured outside these sources: whether it     *)
(* enforces the declared foreign keys (PostgreSQL does, SQLite by default  *)
(* does not) is chosen once, in Init.                                      *)
(*                                                                         *)
(* One request is handled at a time.  A request is two steps: the handler  *)
(* (dependency resolution, validation and the whole handler body), then    *)
(* Finish (the framework's teardown of the get_db dependency).  Collect is *)
(* the runtime reclaiming what a finished request left behind.             *)
(***************************************************************************)
EXTENDS Integers, Sequences, FiniteSets

\* ------------------------------------------------------------------ bounds
MaxId == 3          \* ids the store hands out to users and categories
MaxCards == 3       \* cards the store holds when the program starts
MaxPage == 2        \* largest page number requested
MaxRequests == 2    \* create_user requests handled concurrently

\* ------------------------------------------------------- program constants
PageSizeLimit == 100    \* Query(10, ge=1, le=100)
Null == 0               \* SQL NULL / Python None in an integer column

HTTP_OK == 200
HTTP_BAD_REQUEST == 400
HTTP_NOT_FOUND == 404
HTTP_UNPROCESSABLE == 422
HTTP_SERVER_ERROR == 500

\* ------------------------------------------------------------------ inputs
Emails == {"a@x.io", "b@x.io"}
Names == {"Spanish", "French"}
Ids == 1..MaxId

\* Text is a sequence of characters.
Queries == { <<>>, <<"a">>, <<"a", "B">>, <<"_">>, <<"%">>, <<"b", "a">> }
Pages == (-1)..MaxPage
PageSizes == {0, 1, 2, PageSizeLimit, PageSizeLimit + 1}

\* ------------------------------------------------------------------- state
VARIABLES
    users,          \* table users: rows [id, email]
    categories,     \* table categories: rows [id, name, user_id]
    cards,          \* table cards: rows [id, category_id, user_id, front, back]
    fkEnforced,     \* whether the engine enforces the declared foreign keys
    pc,             \* "idle": no request; "done": handler returned, teardown pending
    resp,           \* the response of the request in flight
    sess,           \* the session of the request in flight
    leaked,         \* whether a finished request left a session open
    returned,       \* history: email -> the ids create_user returned in finished requests
    deleted,        \* history: ids of the cards delete_info has deleted
    inflight        \* the concurrent create_user requests, each at its own step

vars == <<users, categories, cards, fkEnforced, pc, resp, sess, leaked,
          returned, deleted, inflight>>

\* ---------------------------------------------------------------- helpers
IdsOf(rows) == { r.id : r \in rows }

Max(S) == CHOOSE x \in S : \A y \in S : y <= x

\* The identity the engine gives a new row of an Integer primary key: the
\* next one above every id in the table, within the model's bound.
FreshIds(rows) ==
    { i \in Ids : i = (IF rows = {} THEN 1 ELSE Max(IdsOf(rows)) + 1) }

\* Python's None where a row is expected: a row without identity.
None == [id |-> Null]

\* (variant) the filter dropped: the first row of the table, whatever its id
FirstById_Unfiltered(rows, id) ==
    IF rows # {} THEN CHOOSE r \in rows : TRUE ELSE None

\* query(...).filter(<column> == value).first()
FirstById(rows, id) ==
    IF \E r \in rows : r.id = id
    THEN CHOOSE r \in rows : r.id = id
    ELSE None

\* (variant) the filter dropped: query(...).delete() empties the table
DeleteById_Unfiltered(rows, id) == {}

\* .filter(<column> == value).delete()
DeleteById(rows, id) == { r \in rows : r.id # id }

\* (variant) a filter that never matches: the lookup finds no row
FirstByEmail_NeverFound(rows, email) == None

\* query(User).filter(User.email == email).first()
FirstByEmail(rows, email) ==
    IF \E r \in rows : r.email = email
    THEN CHOOSE r \in rows : r.email = email
    ELSE None

\* ------------------------------------------------------------ the schema
\* users.email: unique=True
UserUniqueOk(rows, row) == \A r \in rows : r.email # row.email

\* categories.name: unique=True
CategoryUniqueOk(rows, row) == \A r \in rows : r.name # row.name

\* categories.user_id: ForeignKey("users.id"), nullable
CategoryInsertOk(row) ==
    /\ CategoryUniqueOk(categories, row)
    /\ (fkEnforced /\ row.user_id # Null) => row.user_id \in IdsOf(users)

\* cards.category_id, cards.user_id: ForeignKey(...), nullable=False
CardNotNullOk(row) == row.category_id # Null /\ row.user_id # Null

CardInsertOk(row) ==
    /\ CardNotNullOk(row)
    /\ fkEnforced => /\ row.category_id \in IdsOf(categories)
                     /\ row.user_id \in IdsOf(users)

\* DELETE of a category row: refused by an enforcing engine while a card
\* references it (the foreign key declares no ON DELETE action).
CategoryDeleteOk(id) ==
    fkEnforced => \A c \in cards : c.category_id # id

\* ------------------------------------------------------------ the session
(* A session: state ("none" before it exists, "open", "closed" after      *)
(* close()), the objects added and not yet flushed, whether its           *)
(* transaction failed and awaits a rollback, whether the get_db generator *)
(* that made it is held by the framework (Depends) and so resumed at the  *)
(* end of the request, and whether a database operation ran on it after   *)
(* its close().                                                           *)
NoSession ==
    [state |-> "none", pending |-> {}, failed |-> FALSE,
     managed |-> FALSE, reused |-> FALSE]

\* SessionLocal(), in get_db up to its yield
SessionLocal ==
    [state |-> "open", pending |-> {}, failed |-> FALSE,
     managed |-> FALSE, reused |-> FALSE]

\* db: Session = Depends(get_db)
Depends_get_db == [SessionLocal EXCEPT !.managed = TRUE]

\* db.add(obj)
Add(s, obj) == [s EXCEPT !.pending = @ \cup {obj}]

\* db.commit() that raised: the flush failed, the transaction is unusable
CommitFailed(s) == [s EXCEPT !.failed = TRUE]

\* db.commit() that succeeded, then db.refresh(obj)
Committed(s) == [s EXCEPT !.pending = {}]

\* (variant) the except clause without its db.rollback()
Rollback_Skipped(s) == s

\* db.rollback()
Rollback(s) == [s EXCEPT !.pending = {}, !.failed = FALSE]

\* db.close(), the finally clause of get_db
Close(s) == [s EXCEPT !.state = "closed", !.pending = {}, !.failed = FALSE]

\* db.query(...): a closed session begins a new transaction on its next use
Query(s) ==
    IF s.state = "closed"
    THEN [s EXCEPT !.state = "open", !.reused = TRUE]
    ELSE s

\* ------------------------------------------------------- query building
\* .order_by(desc(Card.id)).all(): the rows as a sequence, largest id first
RECURSIVE OrderByDescId(_)
OrderByDescId(rows) ==
    IF rows = {} THEN <<>>
    ELSE LET top == CHOOSE r \in rows : \A q \in rows : q.id <= r.id
         IN <<top>> \o OrderByDescId(rows \ {top})

\* .offset(n): the sequence without its first n rows
Offset(seq, n) ==
    IF n >= Len(seq) THEN <<>> ELSE SubSeq(seq, n + 1, Len(seq))

\* .limit(n): the first n rows of the sequence
Limit(seq, n) ==
    IF n >= Len(seq) THEN seq ELSE SubSeq(seq, 1, n)

\* (variant) the offset counted in rows where pages were meant
PageOffset_PageOnly(page, page_size) == page

\* offset = page * page_size
PageOffset(page, page_size) == page * page_size

\* Query(0, ge=0) and Query(10, ge=1, le=100)
PageParamsOk(page, page_size) ==
    page >= 0 /\ page_size >= 1 /\ page_size <= PageSizeLimit

\* Case folding of ILIKE, on the model's alphabet
Lower(ch) == CASE ch = "A" -> "a" [] ch = "B" -> "b" [] OTHER -> ch

\* SQL LIKE on folded text: % matches any run of characters, _ any one
RECURSIVE Like(_, _)
Like(text, pattern) ==
    IF pattern = <<>> THEN text = <<>>
    ELSE IF Head(pattern) = "%"
         THEN \/ Like(text, Tail(pattern))
              \/ text # <<>> /\ Like(Tail(text), pattern)
         ELSE /\ text # <<>>
              /\ \/ Head(pattern) = "_"
                 \/ Lower(Head(pattern)) = Lower(Head(text))
              /\ Like(Tail(text), Tail(pattern))

\* search_query = f"%{query}%"
SearchPattern(query) == <<"%">> \o query \o <<"%">>

\* Card.front.ilike(search_query) | Card.back.ilike(search_query)
SearchFilter(rows, query) ==
    { c \in rows : \/ Like(c.front, SearchPattern(query))
                   \/ Like(c.back, SearchPattern(query)) }

\* db.query(Card).join(Category): the inner join on Card.category_id
JoinCategory(rows, cats) ==
    { c \in rows : \E k \in cats : k.id = c.category_id }

\* CardResponse: the card with its category (CategoryResponse)
CardResponse(c, cats) ==
    LET k == FirstById(cats, c.category_id)
    IN [id |-> c.id, front |-> c.front, back |-> c.back,
        category_id |-> c.category_id,
        category |-> [id |-> k.id, name |-> k.name]]

\* ------------------------------------------------- concurrent requests
(* The handlers are plain functions: the framework runs each request on a *)
(* worker thread, so two requests run their statements interleaved, each  *)
(* on its own session.  A request: where it stands ("idle" not arrived,   *)
(* "lookup" before its query, "insert" before its add and commit, "done"  *)
(* answered, "closed" after the teardown), its email, its session and its *)
(* response.                                                              *)
Requests == 1..MaxRequests

IdleRequest ==
    [pc |-> "idle", email |-> "", db |-> NoSession, resp |-> [op |-> "none"]]

\* ---------------------------------------------------------------- Init
SeedUsers == { [id |-> 1, email |-> "a@x.io"] }

SeedCategoryRows == [id : 1..2, name : Names, user_id : {Null}]

\* The text of the card with a given id in the starting store.
SeedFront(i) == CASE i % 3 = 1 -> <<"A", "b">>
                  [] i % 3 = 2 -> <<"b">>
                  [] OTHER     -> <<"%">>

SeedBack(i) == CASE i % 3 = 1 -> <<"b">>
                 [] i % 3 = 2 -> <<"a", "_">>
                 [] OTHER     -> <<"B", "a">>

SeedCardRows(cats) ==
    { [id |-> i, category_id |-> k, user_id |-> 1,
       front |-> SeedFront(i), back |-> SeedBack(i)] :
      i \in 1..MaxCards, k \in IdsOf(cats) }

UniqueIds(rows) == \A r, q \in rows : r.id = q.id => r = q

StoreOk(us, cats, cs) ==
    /\ UniqueIds(us) /\ UniqueIds(cats) /\ UniqueIds(cs)
    /\ \A r, q \in us : r.email = q.email => r = q
    /\ \A r, q \in cats : r.name = q.name => r = q
    /\ \A r \in cats : r.user_id # Null => r.user_id \in IdsOf(us)
    /\ \A c \in cs : c.category_id \in IdsOf(cats) /\ c.user_id \in IdsOf(us)

Init ==
    /\ fkEnforced \in BOOLEAN
    /\ users \in SUBSET SeedUsers
    /\ categories \in SUBSET SeedCategoryRows
    /\ cards \in SUBSET SeedCardRows(categories)
    /\ StoreOk(users, categories, cards)
    /\ pc = "idle"
    /\ resp = [op |-> "none"]
    /\ sess = NoSession
    /\ leaked = FALSE
    /\ returned = [e \in Emails |-> {}]
    /\ deleted = {}
    /\ inflight = [r \in Requests |-> IdleRequest]

\* ------------------------------------------------------------- handlers
(* A response: the handler, its arguments, the HTTP status and the body   *)
(* (the detail string of an error).                                       *)
Response(op, args, status, body) ==
    [op |-> op, args |-> args, status |-> status, body |-> body]

NoResponse == [op |-> "none"]

\* routers/users.py: create_user (the same body in main-old.py)
create_user(email) ==
    /\ pc = "idle"
    /\ LET db == Query(Depends_get_db)
           db_user == FirstByEmail(users, email)
       IN IF db_user.id # Null
          THEN /\ resp' = Response("create_user", email, HTTP_OK, db_user)
               /\ sess' = db
               /\ UNCHANGED users
          ELSE LET row == [id |-> Null, email |-> email]
               IN IF UserUniqueOk(users, row)
                  THEN \E id \in FreshIds(users) :
                         LET saved == [row EXCEPT !.id = id]
                         IN /\ users' = users \cup {saved}
                            /\ resp' = Response("create_user", email, HTTP_OK, saved)
                            /\ sess' = Committed(Add(db, row))
                  ELSE \* IntegrityError, not caught: a server fault
                       /\ resp' = Response("create_user", email,
                                           HTTP_SERVER_ERROR, "Internal Server Error")
                       /\ sess' = CommitFailed(Add(db, row))
                       /\ UNCHANGED users
    /\ pc' = "done"
    /\ UNCHANGED <<inflight, categories, cards, fkEnforced, leaked, returned, deleted>>

\* main.py: create_category
create_category(name) ==
    /\ pc = "idle"
    /\ IF name = ""
       THEN \* CategoryBase.name: min_length=1
            /\ resp' = Response("create_category", name,
                                HTTP_UNPROCESSABLE, "validation")
            /\ sess' = Depends_get_db
            /\ UNCHANGED categories
       ELSE LET row == [id |-> Null, name |-> name, user_id |-> Null]
                db == Add(Depends_get_db, row)
            IN IF CategoryInsertOk(row)
               THEN \E id \in FreshIds(categories) :
                      LET saved == [row EXCEPT !.id = id]
                      IN /\ categories' = categories \cup {saved}
                         /\ resp' = Response("create_category", name, HTTP_OK,
                                             [id |-> id, name |-> name])
                         /\ sess' = Committed(db)
               ELSE /\ resp' = Response("create_category", name,
                                        HTTP_BAD_REQUEST, "Category creation failed")
                    /\ sess' = Rollback(CommitFailed(db))
                    /\ UNCHANGED categories
    /\ pc' = "done"
    /\ UNCHANGED <<inflight, users, cards, fkEnforced, leaked, returned, deleted>>

\* main.py: get_categories
get_categories ==
    /\ pc = "idle"
    /\ resp' = Response("get_categories", "", HTTP_OK,
                        { [id |-> k.id, name |-> k.name] : k \in categories })
    /\ sess' = Query(Depends_get_db)
    /\ pc' = "done"
    /\ UNCHANGED <<inflight, users, categories, cards, fkEnforced, leaked, returned, deleted>>

\* main.py: create_card
create_card(front, back, category_id) ==
    /\ pc = "idle"
    /\ LET args == [front |-> front, back |-> back, category_id |-> category_id]
       IN IF front = <<>> \/ back = <<>>
          THEN \* CardBase.front, CardBase.back: min_length=1
               /\ resp' = Response("create_card", args,
                                   HTTP_UNPROCESSABLE, "validation")
               /\ sess' = Depends_get_db
               /\ UNCHANGED <<cards, deleted>>
          ELSE LET db == Query(Depends_get_db)
                   category == FirstById(categories, category_id)
               IN IF category.id = Null
                  THEN /\ resp' = Response("create_card", args,
                                           HTTP_NOT_FOUND, "Category not found")
                       /\ sess' = db
                       /\ UNCHANGED <<cards, deleted>>
                  ELSE LET card_model ==
                               [id |-> Null, category_id |-> category_id,
                                user_id |-> Null, front |-> front, back |-> back]
                       IN IF CardInsertOk(card_model)
                          THEN \E id \in FreshIds(cards) :
                                 LET saved == [card_model EXCEPT !.id = id]
                                 IN /\ cards' = cards \cup {saved}
                                    /\ deleted' = deleted \ {id}
                                    /\ resp' = Response("create_card", args, HTTP_OK,
                                                 CardResponse(saved, categories))
                                    /\ sess' = Committed(Add(db, card_model))
                          ELSE /\ resp' = Response("create_card", args,
                                            HTTP_BAD_REQUEST, "Card creation failed")
                               /\ sess' = Rollback(CommitFailed(Add(db, card_model)))
                               /\ UNCHANGED <<cards, deleted>>
    /\ pc' = "done"
    /\ UNCHANGED <<inflight, users, categories, fkEnforced, leaked, returned>>

\* main.py: get_cards (GET /all)
get_cards ==
    /\ pc = "idle"
    /\ resp' = Response("get_cards", "", HTTP_OK,
                        { CardResponse(c, categories) :
                          c \in JoinCategory(cards, categories) })
    /\ sess' = Query(Depends_get_db)
    /\ pc' = "done"
    /\ UNCHANGED <<inflight, users, categories, cards, fkEnforced, leaked, returned, deleted>>

\* main.py: get_paginated_cards (GET /cards).  The handler declares no
\* dependency: it calls next(get_db()) itself and drops the generator, so
\* nothing resumes get_db at the end of the request.  The dropped generator
\* is finalized (its finally clause runs db.close()) when the runtime
\* collects it: at once under reference counting, at some later collection
\* otherwise.
get_paginated_cards(page, page_size, finalizedAtOnce) ==
    /\ pc = "idle"
    /\ LET args == [page |-> page, page_size |-> page_size]
       IN IF ~PageParamsOk(page, page_size)
          THEN /\ finalizedAtOnce = FALSE
               /\ resp' = Response("get_paginated_cards", args,
                                   HTTP_UNPROCESSABLE, "validation")
               /\ sess' = NoSession
          ELSE LET db0 == IF finalizedAtOnce THEN Close(SessionLocal)
                                             ELSE SessionLocal
                   offset == PageOffset(page, page_size)
                   page_rows == Limit(Offset(OrderByDescId(cards), offset),
                                      page_size)
                   total_count == Cardinality(cards)
               IN /\ resp' = Response("get_paginated_cards", args, HTTP_OK,
                                [cards |-> page_rows,
                                 total_count |-> total_count,
                                 current_page |-> page,
                                 category_id |-> 0])
                  /\ sess' = Query(db0)
    /\ pc' = "done"
    /\ UNCHANGED <<inflight, users, categories, cards, fkEnforced, leaked, returned, deleted>>

\* main.py: search_cards (GET /search; the same body in routers/search.py)
search_cards(query, page, page_size) ==
    /\ pc = "idle"
    /\ LET args == [query |-> query, page |-> page, page_size |-> page_size]
       IN IF query = <<>> \/ ~PageParamsOk(page, page_size)
          THEN \* Query(..., min_length=1)
               /\ resp' = Response("search_cards", args,
                                   HTTP_UNPROCESSABLE, "validation")
               /\ sess' = Depends_get_db
          ELSE LET offset == PageOffset(page, page_size)
                   base_query == SearchFilter(cards, query)
                   total_count == Cardinality(base_query)
                   page_rows == Limit(Offset(OrderByDescId(base_query), offset),
                                      page_size)
               IN /\ resp' = Response("search_cards", args, HTTP_OK,
                                [cards |-> page_rows,
                                 total_count |-> total_count,
                                 current_page |-> page,
                                 search_term |-> query])
                  /\ sess' = Query(Depends_get_db)
    /\ pc' = "done"
    /\ UNCHANGED <<inflight, users, categories, cards, fkEnforced, leaked, returned, deleted>>

\* main.py: delete_info (DELETE /cards/{card_id})
delete_info(card_id) ==
    /\ pc = "idle"
    /\ LET db == Query(Depends_get_db)
           card_model == FirstById(cards, card_id)
       IN IF card_model.id = Null
          THEN /\ resp' = Response("delete_info", card_id,
                                   HTTP_BAD_REQUEST, "algo paso")
               /\ sess' = db
               /\ UNCHANGED <<cards, deleted>>
          ELSE /\ cards' = DeleteById(cards, card_id)
               /\ deleted' = deleted \cup {card_id}
               /\ resp' = Response("delete_info", card_id, HTTP_OK, "null")
               /\ sess' = Committed(db)
    /\ pc' = "done"
    /\ UNCHANGED <<inflight, users, categories, fkEnforced, leaked, returned>>

\* main.py: delete_category (DELETE /categories/{category_id})
delete_category(category_id) ==
    /\ pc = "idle"
    /\ LET db == Query(Depends_get_db)
           category_model == FirstById(categories, category_id)
       IN IF category_model.id = Null
          THEN /\ resp' = Response("delete_category", category_id,
                                   HTTP_BAD_REQUEST, "algo paso")
               /\ sess' = db
               /\ UNCHANGED categories
          ELSE IF CategoryDeleteOk(category_id)
               THEN /\ categories' = DeleteById(categories, category_id)
                    /\ resp' = Response("delete_category", category_id,
                                        HTTP_OK, "null")
                    /\ sess' = Committed(db)
               ELSE \* IntegrityError, not caught: a server fault
                    /\ resp' = Response("delete_category", category_id,
                                        HTTP_SERVER_ERROR, "Internal Server Error")
                    /\ sess' = CommitFailed(db)
                    /\ UNCHANGED categories
    /\ pc' = "done"
    /\ UNCHANGED <<inflight, users, cards, fkEnforced, leaked, returned, deleted>>

\* The end of the request: the framework resumes the get_db generator it
\* holds (Depends), whose finally clause closes the session, on a normal
\* return and on a raised error alike.  A session made by next(get_db())
\* is not the framework's: it outlives the request, still open.
Finish ==
    /\ pc = "done"
    /\ pc' = "idle"
    /\ resp' = NoResponse
    /\ sess' = NoSession
    /\ leaked' = (leaked \/ (~sess.managed /\ sess.state = "open"))
    /\ returned' = IF resp.op = "create_user" /\ resp.status = HTTP_OK
                   THEN [returned EXCEPT ![resp.args] = @ \cup {resp.body.id}]
                   ELSE returned
    /\ UNCHANGED <<inflight, users, categories, cards, fkEnforced, deleted>>

\* The runtime collects the sessions (or the generators holding them) that
\* finished requests left behind: get_db's finally clause, or the pool's
\* cleanup, releases them.
Collect ==
    /\ pc = "idle"
    /\ leaked
    /\ leaked' = FALSE
    /\ UNCHANGED <<inflight, users, categories, cards, fkEnforced, pc, resp, sess,
                   returned, deleted>>

\* --------------------------------------------------------- request inputs
CardFronts == { <<>>, <<"A", "b">> }
CardBacks == { <<"b">> }
CardIds == 1..MaxCards
SearchPages == 0..1
SearchSizes == {1, PageSizeLimit}

Next ==
    \/ \E e \in Emails : create_user(e)
    \/ \E n \in Names \cup {""} : create_category(n)
    \/ get_categories
    \/ \E f \in CardFronts, b \in CardBacks, k \in Ids : create_card(f, b, k)
    \/ get_cards
    \/ \E p \in Pages, z \in PageSizes, g \in BOOLEAN : get_paginated_cards(p, z, g)
    \/ \E q \in Queries, p \in SearchPages, z \in SearchSizes : search_cards(q, p, z)
    \/ \E i \in CardIds : delete_info(i)
    \/ \E k \in Ids : delete_category(k)
    \/ Finish
    \/ Collect

Spec == Init /\ [][Next]_vars

\* ------------------------------------- create_user, requests interleaved
\* The variables of the one-at-a-time handlers, untouched here.
SequentialVars ==
    <<categories, cards, fkEnforced, pc, resp, sess, leaked, returned, deleted>>

\* A create_user request arrives: its body is validated and its session
\* made (db: Session = Depends(get_db)).
user_arrive(r, email) ==
    /\ inflight[r].pc = "idle"
    /\ inflight' = [inflight EXCEPT ![r] =
                      [pc |-> "lookup", email |-> email,
                       db |-> Depends_get_db, resp |-> NoResponse]]
    /\ UNCHANGED <<users, SequentialVars>>

\* db_user = db.query(User).filter(User.email == user.email).first()
\* if db_user: return db_user
user_lookup(r) ==
    /\ inflight[r].pc = "lookup"
    /\ LET req == inflight[r]
           db_user == FirstByEmail(users, req.email)
       IN inflight' = [inflight EXCEPT ![r] =
            IF db_user.id # Null
            THEN [req EXCEPT !.pc = "done", !.db = Query(req.db),
                             !.resp = Response("create_user", req.email,
                                               HTTP_OK, db_user)]
            ELSE [req EXCEPT !.pc = "insert", !.db = Query(req.db)]]
    /\ UNCHANGED <<users, SequentialVars>>

\* db_user = User(email=user.email); db.add(db_user); db.commit();
\* db.refresh(db_user); return db_user.  No except clause: a commit the
\* unique constraint refuses raises out of the handler, a server fault.
user_insert(r) ==
    /\ inflight[r].pc = "insert"
    /\ LET req == inflight[r]
           row == [id |-> Null, email |-> req.email]
       IN IF UserUniqueOk(users, row)
          THEN \E id \in FreshIds(users) :
                 LET saved == [row EXCEPT !.id = id]
                 IN /\ users' = users \cup {saved}
                    /\ inflight' = [inflight EXCEPT ![r] =
                         [req EXCEPT !.pc = "done",
                                     !.db = Committed(Add(req.db, row)),
                                     !.resp = Response("create_user", req.email,
                                                       HTTP_OK, saved)]]
          ELSE /\ inflight' = [inflight EXCEPT ![r] =
                    [req EXCEPT !.pc = "done",
                                !.db = CommitFailed(Add(req.db, row)),
                                !.resp = Response("create_user", req.email,
                                                  HTTP_SERVER_ERROR,
                                                  "Internal Server Error")]]
               /\ UNCHANGED users
    /\ UNCHANGED SequentialVars

\* The end of the request: get_db's finally clause closes its session.
user_finish(r) ==
    /\ inflight[r].pc = "done"
    /\ inflight' = [inflight EXCEPT ![r] =
                      [@ EXCEPT !.pc = "closed", !.db = Close(@)]]
    /\ UNCHANGED <<users, SequentialVars>>

ConcurrentNext ==
    \/ \E r \in Requests, e \in Emails : user_arrive(r, e)
    \/ \E r \in Requests : user_lookup(r)
    \/ \E r \in Requests : user_insert(r)
    \/ \E r \in Requests : user_finish(r)

SpecConcurrent == Init /\ [][ConcurrentNext]_vars

\* ================================================================ claims
\* A step that is the handler `op` answering a request.
Handled(op) == pc = "idle" /\ pc' = "done" /\ resp'.op = op

\* A request to `op` has been answered and its teardown is pending.
Answered(op) == pc = "done" /\ resp.op = op

UsersWithEmail(e) == { u \in users : u.email = e }

\* ---------------------------------------------------------------- C1
\* C1: every create_user(e) succeeds with the stored User of email e; a
\* call made after earlier calls for the same email returns the id they
\* returned, and once a call was made for e the store holds exactly one
\* User with email e, the one returned (so two calls add at most one user).
C1_CreateUserIdempotent ==
    /\ \A e \in Emails :
         /\ Cardinality(returned[e]) <= 1
         /\ returned[e] # {} =>
              /\ Cardinality(UsersWithEmail(e)) = 1
              /\ { u.id : u \in UsersWithEmail(e) } = returned[e]
    /\ Answered("create_user") =>
         /\ resp.status = HTTP_OK
         /\ resp.body \in users
         /\ resp.body.email = resp.args
         /\ Cardinality(UsersWithEmail(resp.args)) = 1
         /\ returned[resp.args] \subseteq {resp.body.id}

\* create_user was called twice for an email the store did not hold at
\* first: the first call inserted, the second found the row.
C1_Witness ==
    /\ Answered("create_user")
    /\ resp.args = "b@x.io"
    /\ returned["b@x.io"] = {resp.body.id}

\* ---------------------------------------------------------------- C2
C2_NamesUnique ==
    \A k, q \in categories : k.name = q.name => k = q

C2_DuplicateStep ==
    (Handled("create_category") /\ \E k \in categories : k.name = resp'.args)
    => /\ resp'.status = HTTP_BAD_REQUEST
       /\ resp'.body = "Category creation failed"
       /\ sess'.pending = {}
       /\ ~sess'.failed
       /\ categories' = categories

\* C2: create_category with a name already stored answers 400 "Category
\* creation failed", its session is rolled back (nothing pending, no failed
\* transaction) when the error is surfaced, and the categories are
\* unchanged; no two stored categories ever share a name.
C2_DuplicateCategoryRejected ==
    /\ []C2_NamesUnique
    /\ [][C2_DuplicateStep]_vars

\* A duplicate name was refused.
C2_Witness ==
    /\ Answered("create_category")
    /\ resp.status = HTTP_BAD_REQUEST
    /\ \E k \in categories : k.name = resp.args

\* ---------------------------------------------------------------- C3
\* listAllCards: the body GET /all answers in the current store.
ListAllCards ==
    { CardResponse(c, categories) : c \in JoinCategory(cards, categories) }

\* C3 (as claimed): create_card with non-empty front and back and the id
\* of a stored category succeeds and returns the card with its category,
\* and listAllCards then holds exactly one card with the returned id,
\* carrying that front, back and category_id.
C3_CreateCardSucceeds ==
    ( /\ Answered("create_card")
      /\ resp.args.front # <<>>
      /\ resp.args.back # <<>>
      /\ resp.args.category_id \in IdsOf(categories) )
    => /\ resp.status = HTTP_OK
       /\ resp.body.front = resp.args.front
       /\ resp.body.back = resp.args.back
       /\ resp.body.category_id = resp.args.category_id
       /\ resp.body.category.id = resp.args.category_id
       /\ Cardinality({ r \in ListAllCards : r.id = resp.body.id }) = 1
       /\ resp.body \in ListAllCards

\* ---------------------------------------------------------------- C4
C4_Step ==
    ( /\ Handled("create_card")
      /\ resp'.args.front # <<>>
      /\ resp'.args.back # <<>>
      /\ resp'.args.category_id \notin IdsOf(categories) )
    => /\ resp'.status = HTTP_NOT_FOUND
       /\ resp'.body = "Category not found"
       /\ cards' = cards
       /\ categories' = categories

\* C4: create_card (with a body that passed validation) naming a
\* category_id no stored category has answers 404 "Category not found" and
\* leaves the cards and the categories unchanged.
C4_CreateCardUnknownCategory == [][C4_Step]_vars

\* An unknown category was refused while the store holds categories.
C4_Witness ==
    /\ Answered("create_card")
    /\ resp.status = HTTP_NOT_FOUND
    /\ categories # {}

\* ---------------------------------------------------------------- C5
\* The number of stored cards listed before c when sorted by descending id.
Position(c) == Cardinality({ d \in cards : d.id > c.id })

\* C5: for page >= 0 and page_size in 1..100, get_paginated_cards answers
\* 200 with at most page_size cards, which are exactly the stored cards at
\* positions page*page_size .. page*page_size+page_size-1 of the cards
\* sorted by descending id, in that order; total_count is the number of
\* stored cards; a page past the last card is empty.
C5_PagedListing ==
    ( /\ Answered("get_paginated_cards")
      /\ resp.args.page >= 0
      /\ resp.args.page_size >= 1
      /\ resp.args.page_size <= PageSizeLimit )
    => LET first == resp.args.page * resp.args.page_size
           listed == resp.body.cards
           total == Cardinality(cards)
       IN /\ resp.status = HTTP_OK
          /\ Len(listed) <= resp.args.page_size
          /\ resp.body.total_count = total
          /\ \A i \in 1..Len(listed) :
               listed[i] \in cards /\ Position(listed[i]) = first + i - 1
          /\ \A c \in cards :
               (Position(c) >= first /\ Position(c) < first + resp.args.page_size)
               => \E i \in 1..Len(listed) : listed[i] = c
          /\ first >= total => listed = <<>>

\* The second page of three cards, two to a page: one card.
C5_Witness ==
    /\ Answered("get_paginated_cards")
    /\ resp.status = HTTP_OK
    /\ resp.args.page = 1
    /\ resp.args.page_size = 2
    /\ Cardinality(cards) = 3
    /\ Len(resp.body.cards) = 1

\* ---------------------------------------------------------------- C6
\* text contains query as a case-insensitive literal substring
ContainsLiteral(text, query) ==
    \E k \in 0..(Len(text) - Len(query)) :
        \A j \in 1..Len(query) : Lower(text[k + j]) = Lower(query[j])

LiteralMatches(query) ==
    { c \in cards : \/ ContainsLiteral(c.front, query)
                    \/ ContainsLiteral(c.back, query) }

Range(seq) == { seq[i] : i \in 1..Len(seq) }

\* C6 (as claimed): for a non-empty query, wildcard characters included,
\* search_cards matches exactly the cards whose front or back contains the
\* query as a case-insensitive literal substring: total_count is their
\* number, every listed card is one of them, and a first page large enough
\* lists them all.
C6_SearchIsLiteralSubstring ==
    (Answered("search_cards") /\ resp.status = HTTP_OK)
    => LET lit == LiteralMatches(resp.args.query)
       IN /\ resp.body.total_count = Cardinality(lit)
          /\ Range(resp.body.cards) \subseteq lit
          /\ (resp.args.page = 0 /\ resp.args.page_size >= Cardinality(cards))
             => Range(resp.body.cards) = lit

\* ---------------------------------------------------------------- C7
\* The ids of the cards a listing response carries.
ListedIds ==
    CASE resp.op = "get_cards" -> { r.id : r \in resp.body }
      [] resp.op \in {"get_paginated_cards", "search_cards"}
         /\ resp.status = HTTP_OK -> { r.id : r \in Range(resp.body.cards) }
      [] OTHER -> {}

C7_DeletedStayAbsent ==
    /\ deleted \cap IdsOf(cards) = {}
    /\ pc = "done" => deleted \cap ListedIds = {}

C7_Step ==
    Handled("delete_info")
    => LET id == resp'.args
       IN /\ users' = users /\ categories' = categories
          /\ { c \in cards : c.id # id } \subseteq cards'
          /\ cards' \subseteq cards
          /\ IF id \in IdsOf(cards)
             THEN resp'.status = HTTP_OK /\ id \notin IdsOf(cards')
             ELSE resp'.status = HTTP_BAD_REQUEST /\ cards' = cards
          /\ id \in deleted
             => resp'.status = HTTP_BAD_REQUEST /\ cards' = cards

\* C7: a card delete_info deleted is in neither the store nor any listing
\* until a card is created under its id; delete_info of such an id, as of
\* any id no card has, answers the 400 error and changes nothing;
\* delete_info of a stored id removes that card and no other row.
C7_DeleteCard ==
    /\ []C7_DeletedStayAbsent
    /\ [][C7_Step]_vars

\* The second delete of a card, refused, with other cards still stored.
C7_Witness ==
    /\ Answered("delete_info")
    /\ resp.status = HTTP_BAD_REQUEST
    /\ resp.args \in deleted
    /\ cards # {}

\* ---------------------------------------------------------------- C8
\* C8 (as claimed): a stored card whose category_id names a category that
\* delete_category removed is still in the answer of GET /all.
C8_OrphanStillListed ==
    Answered("get_cards")
    => \A c \in cards :
         c.category_id \notin IdsOf(categories)
         => \E r \in resp.body : r.id = c.id

\* ---------------------------------------------------------------- C9
\* C9 (as claimed): no handler runs a database operation on a session after
\* its close(); while a request is handled its open session is one the
\* framework will close at the end of the request; no session of a finished
\* request is left open.
C9_SessionScoped ==
    /\ ~sess.reused
    /\ (pc = "done" /\ sess.state = "open") => sess.managed
    /\ ~leaked

\* --------------------------------------------------------------- C10
C10_Frame ==
    /\ users' = users
    /\ cards' = cards
    /\ { k \in categories : k.id # resp'.args } \subseteq categories'
    /\ categories' \subseteq categories

C10_Removed ==
    /\ resp'.status = HTTP_OK
    /\ resp'.args \notin IdsOf(categories')
    /\ cards' = cards

C10_Refused(status) ==
    /\ resp'.status = status
    /\ categories' = categories
    /\ cards' = cards

\* C10 (as claimed): delete_category of an id no category has answers the
\* error and changes nothing; of a stored id it succeeds and removes
\* exactly that category, every card and every other category unchanged.
C10_Step_Claimed ==
    Handled("delete_category")
    => /\ C10_Frame
       /\ IF resp'.args \in IdsOf(categories)
          THEN C10_Removed
          ELSE C10_Refused(HTTP_BAD_REQUEST)

C10_Blocked ==
    fkEnforced /\ \E c \in cards : c.category_id = resp'.args

C10_Step ==
    Handled("delete_category")
    => /\ C10_Frame
       /\ IF resp'.args \notin IdsOf(categories)
          THEN C10_Refused(HTTP_BAD_REQUEST)
          ELSE IF C10_Blocked
               THEN C10_Refused(HTTP_SERVER_ERROR)
               ELSE C10_Removed

AnsweredRequests == { r \in Requests : inflight[r].pc \in {"done", "closed"} }

\* C11 (as claimed): however concurrent create_user requests for one email
\* interleave, each is answered 200 with the user of that email, all with
\* the same id, none with a duplicate-email error or a server fault, and
\* the store then holds exactly one User with that email.
C11_ConcurrentCreateUser ==
    \A r \in AnsweredRequests :
        /\ inflight[r].resp.status = HTTP_OK
        /\ inflight[r].resp.body.email = inflight[r].email
        /\ Cardinality(UsersWithEmail(inflight[r].email)) = 1
        /\ \A q \in AnsweredRequests :
             inflight[q].email = inflight[r].email
             => /\ inflight[q].resp.status = HTTP_OK
                /\ inflight[q].resp.body.id = inflight[r].resp.body.id
====
